---- MODULE Spec2Model ----
(***************************************************************************)
(* Model of modbus_poll.py: the Modbus-TCP master (ModbusMaster), its      *)
(* eight request operations, the frame builders, the response decoders     *)
(* and the interactive main loop that numbers the transactions.            *)
(*                                                                         *)
(* Byte strings are sequences of integers; Python offset k is index k+1.   *)
(***************************************************************************)
EXTENDS Integers, Sequences, FiniteSets, TLC

VARIABLES
    pc,                  \* position: "idle", "sent", "received", "done" (Spec); "menu", "exited", "crashed" (SpecSession)
    op,                  \* the request operation in progress (method name)
    address,             \* its address argument
    transaction_id,      \* its transaction_id argument
    count,               \* its count argument (reads)
    values,              \* its values argument (writes)
    sent,                \* the bytes handed to _send_packet (<<>>: nothing sent)
    response,            \* the bytes _recv_packet got from the socket
    result,              \* how the operation ended: printed outcome or raised exception
    decoded,             \* the list coils / regs built by a read's decoder
    printed,             \* the values a read printed, in order
    transaction_number   \* the main loop's counter

vars == <<pc, op, address, transaction_id, count, values, sent, response,
          result, decoded, printed, transaction_number>>

----------------------------------------------------------------------------
(* Function codes and exception codes *)

READ_COILS == 1
READ_DISCRETE_INPUTS == 2
READ_HOLDING_REGISTERS == 3
READ_INPUT_REGISTERS == 4
WRITE_SINGLE_COIL == 5
WRITE_SINGLE_REGISTER == 6
WRITE_MULTIPLE_COILS == 15
WRITE_MULTIPLE_REGISTERS == 16

ILLEGAL_FUNCTION == 1
ILLEGAL_DATA_ADDRESS == 2
ILLEGAL_DATA_VALUE == 3
SERVER_DEVICE_FAILURE == 4

\* the unit identifier every request operation passes as `id`
UNIT_ID == 1

ReadOps == {"read_coils", "read_discrete_inputs",
            "read_holding_registers", "read_input_registers"}
BitReadOps == {"read_coils", "read_discrete_inputs"}
RegReadOps == {"read_holding_registers", "read_input_registers"}
WriteOps == {"write_single_coil", "write_single_register",
             "write_multiple_coils", "write_multiple_registers"}

FunctionCode(o) ==
    CASE o = "read_coils" -> READ_COILS
      [] o = "read_discrete_inputs" -> READ_DISCRETE_INPUTS
      [] o = "read_holding_registers" -> READ_HOLDING_REGISTERS
      [] o = "read_input_registers" -> READ_INPUT_REGISTERS
      [] o = "write_single_coil" -> WRITE_SINGLE_COIL
      [] o = "write_single_register" -> WRITE_SINGLE_REGISTER
      [] o = "write_multiple_coils" -> WRITE_MULTIPLE_COILS
      [] o = "write_multiple_registers" -> WRITE_MULTIPLE_REGISTERS

----------------------------------------------------------------------------
(* Shared primitives *)

\* decimal_to_bytes: num // 16**2 and the remainder (Python floor division)
decimal_to_bytes(num) ==
    LET byte_1 == num \div 256
        byte_2 == num - byte_1 * 256
    IN  <<byte_1, byte_2>>

\* bytes_to_dec on a slice; byte[0], byte[1] raise IndexError on a short slice
bytes_to_dec_ok(byte) == Len(byte) >= 2

bytes_to_dec(byte) == byte[1] * 256 + byte[2]

\* Python slice s[lo:hi] (0-based, clipped to the string)
Slice(s, lo, hi) ==
    IF lo >= Len(s) THEN <<>>
    ELSE SubSeq(s, lo + 1, IF hi < Len(s) THEN hi ELSE Len(s))

\* struct.pack("nB", ...) succeeds only when every item is in 0..255
struct_pack_ok(items) == \A i \in 1..Len(items) : items[i] \in 0..255

\* math.ceil(count / 8)
ceil8(n) == (n + 7) \div 8

\* value if value > -1 else value + 65536
to_unsigned(value) == IF value > -1 THEN value ELSE value + 65536

\* _error_display: the message of the exception it raises
error_display(exception_code) ==
    IF exception_code = ILLEGAL_FUNCTION THEN "Illegal function"
    ELSE IF exception_code = ILLEGAL_DATA_ADDRESS THEN "Illegal data address"
    ELSE IF exception_code = ILLEGAL_DATA_VALUE THEN "Illegal data value"
    ELSE IF exception_code = SERVER_DEVICE_FAILURE THEN "Server device failure"
    ELSE "Unknown exception"

----------------------------------------------------------------------------
(* Frame Encoder *)

\* a builder's outcome: the packet handed to _send_packet, or struct.error
Packed(items) ==
    IF struct_pack_ok(items) THEN [ok |-> TRUE, packet |-> items]
    ELSE [ok |-> FALSE, packet |-> <<>>]

\* _build_packet_reading: the 12 items of struct.pack("12B", ...)
build_packet_reading(addr, tid, function_code, id, cnt) ==
    LET trans == decimal_to_bytes(tid)
        ad == decimal_to_bytes(addr)
        ct == decimal_to_bytes(cnt)
    IN  Packed(<<trans[1], trans[2],
                 0, 0,
                 0, 6,
                 id,
                 function_code,
                 ad[1], ad[2],
                 ct[1], ct[2]>>)

\* for value in values: packet += pack("2B", *decimal_to_bytes(...)), in list order
register_bytes(vals) ==
    [i \in 1..(2 * Len(vals)) |->
        decimal_to_bytes(to_unsigned(vals[(i + 1) \div 2]))[IF i % 2 = 1 THEN 1 ELSE 2]]

\* ''.join(map(str, values)).ljust(count_byte * 8, '0'), one digit per value
ljust_zero(vals, width) ==
    [i \in 1..(IF width > Len(vals) THEN width ELSE Len(vals)) |->
        IF i <= Len(vals) THEN vals[i] ELSE 0]

coil_byte_swapped(value, i) ==
    LET byte_2 == value[i + 1] + value[i + 2] * 2 + value[i + 3] * 4 + value[i + 4] * 8
        byte_1 == value[i + 5] + value[i + 6] * 2 + value[i + 7] * 4 + value[i + 8] * 8
    IN  byte_2 * 16 + byte_1

\* one packed byte of write_multiple_coils: the group of 8 digits starting at
\* 0-based offset i, built as two nibbles
coil_byte(value, i) ==
    LET byte_2 == value[i + 1] + value[i + 2] * 2 + value[i + 3] * 4 + value[i + 4] * 8
        byte_1 == value[i + 5] + value[i + 6] * 2 + value[i + 7] * 4 + value[i + 8] * 8
    IN  byte_1 * 16 + byte_2

\* for i in range(0, len(value), 8): packet = packet + pack("1B", ...)
coil_bytes(value) == [k \in 1..(Len(value) \div 8) |-> coil_byte(value, 8 * (k - 1))]

length_multiple_registers_short(cnt) == 6 + cnt * 2

\* the Length byte of the two multiple-write headers
length_multiple_registers(cnt) == 7 + cnt * 2

length_multiple_coils(count_byte) == 7 + count_byte

\* _build_packet_writing, by function code
build_packet_writing(addr, tid, function_code, id, vals) ==
    LET trans == decimal_to_bytes(tid)
        ad == decimal_to_bytes(addr)
    IN  IF function_code = WRITE_SINGLE_REGISTER THEN
            LET data == decimal_to_bytes(to_unsigned(vals[1]))
            IN  Packed(<<trans[1], trans[2], 0, 0, 0, 6, id, function_code,
                         ad[1], ad[2], data[1], data[2]>>)
        ELSE IF function_code = WRITE_MULTIPLE_REGISTERS THEN
            LET cnt == Len(vals)
                ct == decimal_to_bytes(cnt)
            IN  Packed(<<trans[1], trans[2], 0, 0,
                         0, length_multiple_registers(cnt),
                         id, function_code,
                         ad[1], ad[2], ct[1], ct[2],
                         cnt * 2>> \o register_bytes(vals))
        ELSE IF function_code = WRITE_SINGLE_COIL THEN
            Packed(<<trans[1], trans[2], 0, 0, 0, 6, id, function_code,
                     ad[1], ad[2], vals[1] * 255, 0>>)
        ELSE
            LET cnt == Len(vals)
                ct == decimal_to_bytes(cnt)
                count_byte == ceil8(cnt)
                value == ljust_zero(vals, count_byte * 8)
            IN  Packed(<<trans[1], trans[2], 0, 0,
                         0, length_multiple_coils(count_byte),
                         id, function_code,
                         ad[1], ad[2], ct[1], ct[2],
                         count_byte>> \o coil_bytes(value))

----------------------------------------------------------------------------
(* Response Decoder *)

\* "{0:b}".format(n): the binary digits of n, most significant first
RECURSIVE format_b(_)
format_b(n) == IF n < 2 THEN <<n>> ELSE format_b(n \div 2) \o <<n % 2>>

\* str.zfill(width): zeros on the left up to width
zfill(digits, width) ==
    IF Len(digits) >= width THEN digits
    ELSE [i \in 1..(width - Len(digits)) |-> 0] \o digits

\* s[::-1]
reversed(s) == [i \in 1..Len(s) |-> s[Len(s) + 1 - i]]

\* the 8 coils appended for one payload byte
coils_of_byte(b) == reversed(zfill(format_b(b), 8))

\* for i in range(byte_count): coils += the bits of response[9 + i]
unpack_coils(resp, byte_count) ==
    [k \in 1..(8 * byte_count) |->
        coils_of_byte(resp[9 + ((k - 1) \div 8) + 1])[((k - 1) % 8) + 1]]

sign_extend_missing(value) == value

\* regs.append(value if value < 32768 else value - 65536)
sign_extend(value) == IF value < 32768 THEN value ELSE value - 65536

\* for i in range(0, byte_count, 2): regs += the register at response[9 + i], [9 + i + 1]
unpack_regs(resp, byte_count) ==
    [k \in 1..((byte_count + 1) \div 2) |->
        LET i == 2 * (k - 1)
            value_1 == resp[9 + i + 1] * 256
            value_2 == resp[9 + i + 1 + 1]
        IN  sign_extend(value_1 + value_2)]

\* the printing loop: every item up to and including index count - 1
print_loop(items, cnt) ==
    IF cnt >= 1 /\ cnt <= Len(items) THEN SubSeq(items, 1, cnt) ELSE items

\* the exception test of every request operation: response[1] & 0x80
\* (an out-of-range index raises IndexError before the test)
exception_flag(resp) == (resp[1 + 1] \div 128) % 2 = 1

\* the byte handed to _error_display: response[2]
exception_code_of(resp) == resp[2 + 1]

Raised(what) == [result |-> what, decoded |-> <<>>, printed |-> <<>>]

\* the highest 0-based offset the decoding loop of a read indexes, -1 if none
last_index_read(o, byte_count) ==
    IF byte_count = 0 THEN -1
    ELSE IF o \in BitReadOps THEN 9 + byte_count - 1
    ELSE 9 + 2 * ((byte_count - 1) \div 2) + 1

\* a read operation from the line after _recv_packet to its end
decode_read(o, cnt, resp) ==
    IF Len(resp) < 2 THEN Raised("IndexError")
    ELSE IF exception_flag(resp) THEN
        IF Len(resp) < 3 THEN Raised("IndexError")
        ELSE Raised(error_display(exception_code_of(resp)))
    ELSE IF ~ bytes_to_dec_ok(Slice(resp, 0, 2)) THEN Raised("IndexError")
    ELSE IF ~ bytes_to_dec_ok(Slice(resp, 2, 4)) THEN Raised("IndexError")
    ELSE IF ~ bytes_to_dec_ok(Slice(resp, 4, 6)) THEN Raised("IndexError")
    ELSE IF Len(resp) < 9 THEN Raised("IndexError")
    ELSE
        LET byte_count == resp[8 + 1]
        IN  IF last_index_read(o, byte_count) >= Len(resp) THEN Raised("IndexError")
            ELSE
                LET items == IF o \in BitReadOps
                             THEN unpack_coils(resp, byte_count)
                             ELSE unpack_regs(resp, byte_count)
                IN  [result |-> "Printed", decoded |-> items,
                     printed |-> print_loop(items, cnt)]

\* a write operation from the line after _recv_packet to its end
decode_write(resp) ==
    IF Len(resp) < 2 THEN Raised("IndexError")
    ELSE IF exception_flag(resp) THEN
        IF Len(resp) < 3 THEN Raised("IndexError")
        ELSE Raised(error_display(exception_code_of(resp)))
    ELSE [result |-> "Success!", decoded |-> <<>>, printed |-> <<>>]

decode(o, cnt, resp) ==
    IF o \in ReadOps THEN decode_read(o, cnt, resp) ELSE decode_write(resp)

recv_raises_never(data) == FALSE

\* _recv_packet: `if not data: raise Exception("Connection closed")`
recv_raises(data) == data = <<>>

----------------------------------------------------------------------------
(* Inputs: the arguments callers pass and the bytes the peer returns *)

\* longest argument list / payload / chunk that is enumerated exhaustively
MaxValues == 2
MaxCoils == 3
MaxPayload == 2
MaxChunk == 10

TransactionIds == {1, 128, 65535, 65536}
Addresses == {0, 5}
BitCounts == {0, 1, 9, 2000, 2001}
RegCounts == {0, 1, 2, 125, 126}
ByteVals == {0, 127, 128, 255}
ExceptionCodes == 0..5
RegisterValues == {-32768, -1, 0, 32767}
SingleRegisterValues == RegisterValues \cup {65536}
SingleCoilValues == {0, 1, 2}
LongRegisterLens == {123, 124, 125}
LongCoilLens == {8, 1968, 1969, 1984, 1985}

SeqsUpTo(S, n) == UNION {[1..k -> S] : k \in 0..n}

\* a long list that is not constant: item i is list[(i + off) mod Len(list)]
Cycle(list, off, n) == [i \in 1..n |-> list[((i + off) % Len(list)) + 1]]

RegisterLists ==
    SeqsUpTo(RegisterValues, MaxValues)
    \cup {Cycle(<<-1, 0, 32767, -32768>>, 0, n) : n \in LongRegisterLens}

CoilLists ==
    SeqsUpTo({0, 1}, MaxCoils)
    \cup {<<1, 0, 1, 1, 0, 0, 0, 1, 1>>}
    \cup {Cycle(<<1, 0, 0>>, 2, n) : n \in LongCoilLens}

\* the payload length a well-formed read response carries
payload_len(o, cnt) == IF o \in BitReadOps THEN ceil8(cnt) ELSE 2 * cnt

Payloads(o, cnt) ==
    SeqsUpTo(ByteVals, MaxPayload)
    \cup {Cycle(<<255, 0, 128, 127, 1>>, off, payload_len(o, cnt)) :
            off \in IF payload_len(o, cnt) \in (MaxPayload + 1)..255 THEN 0..2 ELSE {}}

\* a response frame: MBAP header (tid bytes, protocol 0, Length of what follows) + rest
Frame(tid_bytes, rest) ==
    tid_bytes \o <<0, 0>> \o decimal_to_bytes(Len(rest)) \o rest

\* the frames the peer may answer a request with
PeerFrames(o, cnt, packet, tid_bytes) ==
    {Frame(tid_bytes, <<UNIT_ID, FunctionCode(o) + 128, code>>) : code \in ExceptionCodes}
    \cup (IF o \in ReadOps
          THEN {Frame(tid_bytes, <<UNIT_ID, FunctionCode(o), byte_count>> \o p) :
                   <<p, byte_count>> \in {<<q, bc>> \in Payloads(o, cnt) \X (0..255) :
                                             bc \in {Len(q), Len(q) + 1}}}
          ELSE {Frame(tid_bytes, SubSeq(packet, 7, 12))})

\* what one recv may return: the frame, a first chunk of it, or nothing
Chunks(frame) ==
    {SubSeq(frame, 1, n) : n \in {m \in 0..Len(frame) : m <= MaxChunk \/ m >= Len(frame) - 1}}

PeerData(o, cnt, packet) ==
    UNION {Chunks(f) : f \in PeerFrames(o, cnt, packet, SubSeq(packet, 1, 2))}

----------------------------------------------------------------------------
(* One request operation at a time, called with any arguments *)

Init ==
    /\ pc = "idle"
    /\ op = "none"
    /\ address = 0
    /\ transaction_id = 0
    /\ count = 0
    /\ values = <<>>
    /\ sent = <<>>
    /\ response = <<>>
    /\ result = "none"
    /\ decoded = <<>>
    /\ printed = <<>>
    /\ transaction_number = 0

\* the first line of a request operation: the builder packs the frame and hands
\* it to _send_packet, or struct.pack raises and the operation ends
Call(o, addr, tid, cnt, vals, built) ==
    /\ op' = o
    /\ address' = addr
    /\ transaction_id' = tid
    /\ count' = cnt
    /\ values' = vals
    /\ sent' = built.packet
    /\ pc' = IF built.ok THEN "sent" ELSE "done"
    /\ result' = IF built.ok THEN "none" ELSE "struct.error"
    /\ UNCHANGED <<response, decoded, printed, transaction_number>>

read_coils ==
    /\ pc = "idle"
    /\ \E addr \in Addresses, tid \in TransactionIds, cnt \in BitCounts :
        Call("read_coils", addr, tid, cnt, <<>>,
             build_packet_reading(addr, tid, READ_COILS, UNIT_ID, cnt))

read_discrete_inputs ==
    /\ pc = "idle"
    /\ \E addr \in Addresses, tid \in TransactionIds, cnt \in BitCounts :
        Call("read_discrete_inputs", addr, tid, cnt, <<>>,
             build_packet_reading(addr, tid, READ_DISCRETE_INPUTS, UNIT_ID, cnt))

read_holding_registers ==
    /\ pc = "idle"
    /\ \E addr \in Addresses, tid \in TransactionIds, cnt \in RegCounts :
        Call("read_holding_registers", addr, tid, cnt, <<>>,
             build_packet_reading(addr, tid, READ_HOLDING_REGISTERS, UNIT_ID, cnt))

read_input_registers ==
    /\ pc = "idle"
    /\ \E addr \in Addresses, tid \in TransactionIds, cnt \in RegCounts :
        Call("read_input_registers", addr, tid, cnt, <<>>,
             build_packet_reading(addr, tid, READ_INPUT_REGISTERS, UNIT_ID, cnt))

write_single_register ==
    /\ pc = "idle"
    /\ \E addr \in Addresses, tid \in TransactionIds, v \in SingleRegisterValues :
        Call("write_single_register", addr, tid, 0, <<v>>,
             build_packet_writing(addr, tid, WRITE_SINGLE_REGISTER, UNIT_ID, <<v>>))

write_multiple_registers ==
    /\ pc = "idle"
    /\ \E addr \in Addresses, tid \in TransactionIds, vals \in RegisterLists :
        Call("write_multiple_registers", addr, tid, 0, vals,
             build_packet_writing(addr, tid, WRITE_MULTIPLE_REGISTERS, UNIT_ID, vals))

write_single_coil ==
    /\ pc = "idle"
    /\ \E addr \in Addresses, tid \in TransactionIds, v \in SingleCoilValues :
        Call("write_single_coil", addr, tid, 0, <<v>>,
             build_packet_writing(addr, tid, WRITE_SINGLE_COIL, UNIT_ID, <<v>>))

write_multiple_coils ==
    /\ pc = "idle"
    /\ \E addr \in Addresses, tid \in TransactionIds, vals \in CoilLists :
        Call("write_multiple_coils", addr, tid, 0, vals,
             build_packet_writing(addr, tid, WRITE_MULTIPLE_COILS, UNIT_ID, vals))

\* the rest of a request operation: _recv_packet, then the exception test and
\* the decoding, to the return or the raise
recv_and_decode ==
    /\ pc = "sent"
    /\ \E data \in PeerData(op, count, sent) :
        LET out == IF recv_raises(data) THEN Raised("Connection closed")
                   ELSE decode(op, count, data)
        IN  /\ response' = data
            /\ result' = out.result
            /\ decoded' = out.decoded
            /\ printed' = out.printed
    /\ pc' = "done"
    /\ UNCHANGED <<op, address, transaction_id, count, values, sent, transaction_number>>

\* the caller takes the outcome; the next call starts from a fresh frame
Return ==
    /\ pc = "done"
    /\ pc' = "idle"
    /\ op' = "none"
    /\ address' = 0
    /\ transaction_id' = 0
    /\ count' = 0
    /\ values' = <<>>
    /\ sent' = <<>>
    /\ response' = <<>>
    /\ result' = "none"
    /\ decoded' = <<>>
    /\ printed' = <<>>
    /\ UNCHANGED transaction_number

Next ==
    \/ read_coils
    \/ read_discrete_inputs
    \/ read_holding_registers
    \/ read_input_registers
    \/ write_single_register
    \/ write_multiple_registers
    \/ write_single_coil
    \/ write_multiple_coils
    \/ recv_and_decode
    \/ Return

Spec == Init /\ [][Next]_vars

----------------------------------------------------------------------------
(* The main loop: one session, transaction_number counting the requests *)

\* Every menu branch that issues a request has the same shape: read the
\* arguments, transaction_number += 1, call the operation with the counter as
\* transaction id.  The session follows two of them, one read and one write,
\* and the exit branch.

\* what the operator types at the menu prompts
SessionAddresses == {0}
SessionCounts == {1}
SessionCoilValues == {1}

\* the peer of a session answers with a complete frame: a normal response or an
\* exception, under the request's transaction id or under transaction id 0
SessionPeerData(o, cnt, packet) ==
    UNION {{Frame(tid_bytes, <<UNIT_ID, FunctionCode(o) + 128, ILLEGAL_DATA_ADDRESS>>)}
           \cup (IF o \in ReadOps
                 THEN {Frame(tid_bytes, <<UNIT_ID, FunctionCode(o), payload_len(o, cnt)>>
                                         \o Cycle(<<255, 0>>, 1, payload_len(o, cnt)))}
                 ELSE {Frame(tid_bytes, SubSeq(packet, 7, 12))}) :
           tid_bytes \in {SubSeq(packet, 1, 2), <<0, 0>>}}

\* the largest transaction_number the session is followed to
MaxTransactions == 65536

SessionInit ==
    /\ pc = "menu"
    /\ op = "none"
    /\ address = 0
    /\ transaction_id = 0
    /\ count = 0
    /\ values = <<>>
    /\ sent = <<>>
    /\ response = <<>>
    /\ result = "none"
    /\ decoded = <<>>
    /\ printed = <<>>
    /\ transaction_number = 0

\* one menu branch that issues a request: transaction_number += 1, the request
\* operation runs to its end; an exception it raises is not caught and ends
\* the program
MainRequest(o, addr, cnt, vals, built) ==
    /\ transaction_number' = transaction_number + 1
    /\ op' = o
    /\ address' = addr
    /\ transaction_id' = transaction_number + 1
    /\ count' = cnt
    /\ values' = vals
    /\ sent' = built.packet
    /\ IF ~ built.ok
       THEN /\ result' = "struct.error"
            /\ pc' = "crashed"
            /\ response' = <<>>
            /\ decoded' = <<>>
            /\ printed' = <<>>
       ELSE \E data \in SessionPeerData(o, cnt, built.packet) :
               LET out == IF recv_raises(data) THEN Raised("Connection closed")
                          ELSE decode(o, cnt, data)
               IN  /\ response' = data
                   /\ result' = out.result
                   /\ decoded' = out.decoded
                   /\ printed' = out.printed
                   /\ pc' = IF out.result \in {"Printed", "Success!"}
                            THEN "menu" ELSE "crashed"

\* function_code == '0'
main_exit ==
    /\ pc = "menu"
    /\ pc' = "exited"
    /\ UNCHANGED <<op, address, transaction_id, count, values, sent, response,
                   result, decoded, printed, transaction_number>>

\* function_code == '3'
main_read_holding_registers ==
    /\ pc = "menu"
    /\ transaction_number < MaxTransactions
    /\ \E addr \in SessionAddresses, quantity \in SessionCounts :
        MainRequest("read_holding_registers", addr, quantity, <<>>,
                    build_packet_reading(addr, transaction_number + 1,
                                         READ_HOLDING_REGISTERS, UNIT_ID, quantity))

\* function_code == '5'
main_write_single_coil ==
    /\ pc = "menu"
    /\ transaction_number < MaxTransactions
    /\ \E addr \in SessionAddresses, value \in SessionCoilValues :
        MainRequest("write_single_coil", addr, 0, <<value>>,
                    build_packet_writing(addr, transaction_number + 1,
                                         WRITE_SINGLE_COIL, UNIT_ID, <<value>>))

SessionNext ==
    \/ main_exit
    \/ main_read_holding_registers
    \/ main_write_single_coil

SpecSession == SessionInit /\ [][SessionNext]_vars

----------------------------------------------------------------------------
(* Properties *)

\* the byte at Python offset k of a byte string
At(s, k) == s[k + 1]

Bit(byte, b) == (byte \div (2 ^ b)) % 2

ExceptionMessages == {"Illegal function", "Illegal data address", "Illegal data value",
                      "Server device failure", "Unknown exception"}

\* the operation got an outcome out of the received bytes
Decoded == pc = "done" /\ result \in ({"Printed", "Success!"} \cup ExceptionMessages)

\* the exception the protocol assigns to an exception code
ProtocolException(code) ==
    CASE code = 1 -> "Illegal function"
      [] code = 2 -> "Illegal data address"
      [] code = 3 -> "Illegal data value"
      [] code = 4 -> "Server device failure"
      [] OTHER -> "Unknown exception"

\* arguments within the protocol's ranges
ArgumentsInRange ==
    /\ op # "none"
    /\ transaction_id \in 0..65535
    /\ address \in 0..65535
    /\ op \in BitReadOps => count \in 1..2000
    /\ op \in RegReadOps => count \in 1..125
    /\ op = "write_single_coil" => values[1] \in {0, 1}
    /\ op = "write_single_register" => values[1] \in -32768..32767
    /\ op = "write_multiple_registers" =>
          /\ Len(values) \in 1..123
          /\ \A i \in 1..Len(values) : values[i] \in -32768..32767
    /\ op = "write_multiple_coils" =>
          /\ Len(values) \in 1..1968
          /\ \A i \in 1..Len(values) : values[i] \in {0, 1}

\* C1: whenever the received response has the high bit set in the function-code
\* byte at offset 7, the operation ends in the protocol exception selected by
\* the exception code at offset 8, and yields neither values nor success.
C1_ExceptionAtOffset7 ==
    (pc = "done" /\ ArgumentsInRange /\ Len(response) >= 9 /\ At(response, 7) >= 128)
        => /\ result = ProtocolException(At(response, 8))
           /\ printed = <<>>

\* the peer's normal response matching the read in progress: transaction id
\* echoed, function code unchanged, byte count = the payload a read of `count`
\* items carries, and exactly that many payload bytes
MatchingReadResponse ==
    /\ Len(response) = 9 + payload_len(op, count)
    /\ At(response, 0) * 256 + At(response, 1) = transaction_id
    /\ At(response, 7) = FunctionCode(op)
    /\ At(response, 8) = payload_len(op, count)

ReadInRange ==
    /\ op \in ReadOps
    /\ transaction_id \in 0..65535
    /\ count \in (IF op \in BitReadOps THEN 1..2000 ELSE 1..125)

\* the value a matching response carries for address + k (k from 0)
ExpectedValue(k) ==
    IF op \in BitReadOps
    THEN Bit(At(response, 9 + (k \div 8)), k % 8)
    ELSE LET v == At(response, 9 + 2 * k) * 256 + At(response, 9 + 2 * k + 1)
         IN  IF v >= 32768 THEN v - 65536 ELSE v

\* C2: a read with in-range count and transaction id that gets the matching
\* normal response yields exactly `count` values, the k-th one being the value
\* for address + k.
C2_ReadYieldsCountValues ==
    (pc = "done" /\ ReadInRange /\ MatchingReadResponse)
        => /\ result = "Printed"
           /\ Len(printed) = count
           /\ \A k \in 0..(count - 1) : printed[k + 1] = ExpectedValue(k)

QuantityOutOfRange ==
    \/ op \in BitReadOps /\ count \notin 1..2000
    \/ op \in RegReadOps /\ count \notin 1..125
    \/ op = "write_multiple_registers" /\ Len(values) \notin 1..123

\* C3: a request whose quantity is outside the protocol limits puts no bytes on
\* the transport and fails with InvalidArgument.
C3_BadQuantityNeverSent ==
    QuantityOutOfRange
        => /\ sent = <<>>
           /\ pc = "done" => result = "InvalidArgument"

\* the number of bytes after the Length field that the protocol gives the
\* request in progress
ExpectedLength ==
    IF op = "write_multiple_registers" THEN 7 + 2 * Len(values)
    ELSE IF op = "write_multiple_coils"
         THEN 7 + (Len(values) \div 8) + (IF Len(values) % 8 = 0 THEN 0 ELSE 1)
         ELSE 6

\* C4: every frame handed to _send_packet has protocol id 0 at offsets 2-3 and
\* a big-endian Length at offsets 4-5 equal to the number of bytes that follow
\* it: 6, 7 + 2*count or 7 + ceil(count/8); and a request with in-range
\* arguments does hand its frame over.
C4_LengthFieldMatches ==
    /\ sent # <<>> =>
          /\ At(sent, 2) = 0 /\ At(sent, 3) = 0
          /\ At(sent, 4) * 256 + At(sent, 5) = Len(sent) - 6
          /\ Len(sent) - 6 = ExpectedLength
    /\ ArgumentsInRange => sent # <<>>

C4_Witness ==
    /\ pc = "sent"
    /\ op = "write_multiple_registers"
    /\ Len(values) = 123
    /\ Len(sent) = 259

\* C5: write_multiple_coils packs a non-empty list of 0/1 values into exactly
\* ceil(count/8) data bytes after the byte-count field; bit b of data byte i is
\* the value at index 8*i + b, and 0 at or beyond count; [1,0,1,1,0,0,0,1,1]
\* packs to 0x8D, 0x01.
C5_CoilPacking ==
    (op = "write_multiple_coils" /\ values # <<>>) =>
        /\ ArgumentsInRange => sent # <<>>
        /\ sent # <<>> =>
              /\ 8 * (Len(sent) - 13) >= Len(values)
              /\ 8 * (Len(sent) - 13) < Len(values) + 8
              /\ At(sent, 12) = Len(sent) - 13
              /\ \A i \in 0..(Len(sent) - 14) : \A b \in 0..7 :
                    Bit(At(sent, 13 + i), b) =
                        (IF 8 * i + b < Len(values) THEN values[8 * i + b + 1] ELSE 0)
              /\ values = <<1, 0, 1, 1, 0, 0, 0, 1, 1>> =>
                    SubSeq(sent, 14, Len(sent)) = <<141, 1>>

C5_Witness ==
    /\ pc = "sent"
    /\ op = "write_multiple_coils"
    /\ values = <<1, 0, 1, 1, 0, 0, 0, 1, 1>>
    /\ Len(sent) = 15

\* C6: a register read decodes every payload byte pair (hi, lo) to the 16-bit
\* value 256*hi + lo read as two's complement: the decoded register lies in
\* -32768..32767 and is congruent to 256*hi + lo modulo 65536; FF FF is -1,
\* 80 00 is -32768, 7F FF is 32767.
C6_SignExtension ==
    (pc = "done" /\ op \in RegReadOps /\ result = "Printed") =>
        /\ 2 * Len(decoded) >= At(response, 8)
        /\ \A k \in 0..(Len(decoded) - 1) :
              LET hi == At(response, 9 + 2 * k)
                  lo == At(response, 9 + 2 * k + 1)
                  reg == decoded[k + 1]
              IN  /\ reg \in -32768..32767
                  /\ (reg - (256 * hi + lo)) % 65536 = 0
                  /\ (hi = 255 /\ lo = 255) => reg = -1
                  /\ (hi = 128 /\ lo = 0) => reg = -32768
                  /\ (hi = 127 /\ lo = 255) => reg = 32767
        /\ \A k \in 1..Len(printed) : printed[k] = decoded[k]

C6_Witness ==
    /\ pc = "done"
    /\ op = "read_holding_registers"
    /\ result = "Printed"
    /\ Len(response) = 11
    /\ At(response, 9) = 128 /\ At(response, 10) = 0
    /\ printed = <<-32768>>

\* a read response that is too short for offset 8, or a normal response whose
\* byte count at offset 8 declares more payload than follows it
TruncatedReadResponse ==
    /\ op \in ReadOps
    /\ Len(response) >= 1
    /\ \/ Len(response) < 8
       \/ Len(response) = 8 /\ At(response, 7) < 128
       \/ Len(response) >= 9 /\ At(response, 7) < 128
                             /\ At(response, 8) > Len(response) - 9

\* C7: a read that receives a truncated response fails with MalformedResponse.
C7_TruncatedIsMalformed ==
    (pc = "done" /\ ArgumentsInRange /\ TruncatedReadResponse) => result = "MalformedResponse"

\* C8: no operation decodes a received chunk as if it were the full frame: an
\* outcome is decoded only from 6 + Length received bytes, Length being the
\* big-endian field at offsets 4-5.
C8_DecodeOnlyFullFrame ==
    (Decoded /\ ArgumentsInRange) =>
        /\ Len(response) >= 6
        /\ Len(response) = 6 + At(response, 4) * 256 + At(response, 5)

\* C9: when the receive following the send returns zero bytes, the operation
\* fails with the connection-closed error and decodes nothing.
C9_ZeroBytesIsConnectionClosed ==
    (pc = "done" /\ sent # <<>> /\ response = <<>>) =>
        /\ result = "Connection closed"
        /\ decoded = <<>>
        /\ printed = <<>>

C9_Witness ==
    /\ pc = "done"
    /\ op = "write_single_coil"
    /\ sent # <<>>
    /\ response = <<>>
    /\ result = "Connection closed"

\* C10: in a session every request gets a transaction id strictly greater than
\* the previous one and still in 0..65535, which is encoded big-endian at
\* offsets 0-1 of the frame that is sent.
C10_TransactionIdMonotoneU16 ==
    [][transaction_number' # transaction_number =>
          /\ transaction_number' > transaction_number
          /\ transaction_id' = transaction_number'
          /\ transaction_id' \in 0..65535
          /\ sent' # <<>>
          /\ At(sent', 0) * 256 + At(sent', 1) = transaction_id']_vars

====
